---- MODULE Spec2Model ----
(***************************************************************************)
(* SIP (systematic investment plan) simulation of kanisgar/                *)
(* Mutual_Fund_Analysis: the day-of-month comparison scripts working.py    *)
(* and app.py, and the per-fund fixed-horizon script sip_estimation.py.    *)
(*                                                                         *)
(* Money is exact: a number of units or a value is a numerator over the    *)
(* fixed denominator UnitsDen (every NAV of the model divides it); a       *)
(* formatted amount ("{:,.2f}") is a whole number of cents.  A CAGR        *)
(* (ratio ** (1 / years) - 1) is kept as the pair it is a function of: the *)
(* reduced ratio and the elapsed days.                                     *)
(***************************************************************************)
EXTENDS Integers, Sequences, FiniteSets, TLC

VARIABLES
    script,            \* which script runs: "working", "app", "sip_estimation"
    df,                \* the NAV frame, sorted by date: Seq([date, nav])
    sip_start_date,    \* first day of the simulated span
    sip_end_date,      \* df['date'].max()
    years,             \* sip_estimation: the fund's horizon (0 in the day scripts)
    sip_amount,        \* monthly amount (investment_amount in the day scripts)
    sip_day,           \* day of month being simulated (0 before the first)
    current,           \* the month cursor of the while loop
    sip_investments,   \* the NAV rows bought so far
    months_done,       \* sip_estimation: contributions counted against the cap
    cagr_results,      \* day scripts: sip_day -> result row
    result,            \* sip_estimation: <<>> for None, <<row>> for a result
    pc,                \* control location
    error,             \* the exception that ended the run ("" when none)
    \* main() of sip_estimation.py
    funds,             \* the fund list: Seq([sip_day, sip_amount, years])
    fund_idx,          \* position of the for loop in funds
    results,           \* the rows of the funds that gave one
    total_invested,    \* running total, in cents
    total_final_value, \* running total, in cents
    resting_results,   \* the rows of the funds given a resting period
    total_rested_value,\* running total, a numerator over UnitsDen * UnitsDen
    summary,           \* what the aggregated summaries printed
    returned           \* history: what analyze_fund returned for each fund so far

simVars == <<script, df, sip_start_date, sip_end_date, years, sip_amount, sip_day,
             current, sip_investments, months_done, cagr_results, result>>

mainVars == <<funds, fund_idx, results, total_invested, total_final_value,
              resting_results, total_rested_value, summary, returned>>

vars == <<simVars, mainVars, pc, error>>

---------------------------------------------------------------------------
(* Bounds of the model *)

MaxLen == 2        \* samples in an arbitrary NAV payload
MaxYears == 2      \* largest horizon entered
MaxFunds == 2      \* funds in the list of main()

(* Program constants *)

investment_amount == 50000
DayThreshold == 24
FundThreshold == 12
MonthsPerYear == 12

---------------------------------------------------------------------------
(* Calendar: datetime / pandas.Timestamp arithmetic *)

MkDate(y, m, d) == [year |-> y, month |-> m, day |-> d]

IsLeap(y) == (y % 4 = 0 /\ y % 100 # 0) \/ y % 400 = 0

DaysInMonth(y, m) ==
    IF m = 2 THEN (IF IsLeap(y) THEN 29 ELSE 28)
    ELSE IF m \in {4, 6, 9, 11} THEN 30 ELSE 31

\* a <= b on dates
DateLE(a, b) ==
    \/ a.year < b.year
    \/ a.year = b.year /\ a.month < b.month
    \/ a.year = b.year /\ a.month = b.month /\ a.day <= b.day

RECURSIVE DaysBeforeMonth(_, _)
DaysBeforeMonth(y, m) ==
    IF m = 1 THEN 0 ELSE DaysBeforeMonth(y, m - 1) + DaysInMonth(y, m - 1)

\* datetime.toordinal
ToOrdinal(d) ==
    LET y == d.year - 1
    IN  y * 365 + (y \div 4) - (y \div 100) + (y \div 400)
          + DaysBeforeMonth(d.year, d.month) + d.day

\* (b - a).days
DaysBetween(a, b) == ToOrdinal(b) - ToOrdinal(a)

\* mutant of ReplaceRaises: any day up to 31 is taken in any month
ReplaceRaisesPast31(d, day) == day \notin 1..31

\* current.replace(day=sip_day) raises ValueError when the month has no such day
ReplaceRaises(d, day) == day \notin 1..DaysInMonth(d.year, d.month)

ReplaceDay(d, day) == [d EXCEPT !.day = day]

\* d + timedelta(days=n), n >= 0
RECURSIVE AddDays(_, _)
AddDays(d, n) ==
    LET len == DaysInMonth(d.year, d.month)
    IN  IF d.day + n <= len THEN [d EXCEPT !.day = d.day + n]
        ELSE AddDays(IF d.month = 12 THEN MkDate(d.year + 1, 1, 1)
                                     ELSE MkDate(d.year, d.month + 1, 1),
                     n - (len - d.day + 1))

\* d - pd.DateOffset(years=k): same month, the day clipped to the month's length
SubYears(d, k) ==
    LET y == d.year - k
        len == DaysInMonth(y, d.month)
    IN  MkDate(y, d.month, IF d.day <= len THEN d.day ELSE len)

---------------------------------------------------------------------------
(* The NAV payload and the frame built from it *)

NavValues == {1, 3}

CandDates == { MkDate(2023, 1, 15), MkDate(2023, 12, 31), MkDate(2024, 12, 15) }

Samples == [date : CandDates, nav : NavValues]

\* Ten monthly samples, 2024-03-01 .. 2024-12-01, listed newest first as the feed does
MonthlyPayload ==
    [i \in 1..10 |-> [date |-> MkDate(2024, 13 - i, 1),
                      nav |-> IF i % 2 = 0 THEN 1 ELSE 3]]

\* data['data'] of a well-formed response: any order, dates may repeat
Payloads ==
    UNION { [1..n -> Samples] : n \in 1..MaxLen } \cup { MonthlyPayload }

\* one NAV row placed into a date-sorted frame, anywhere sortedness allows
InsertSorted(s, row) ==
    { SubSeq(s, 1, i) \o <<row>> \o SubSeq(s, i + 1, Len(s)) :
        i \in { k \in 0..Len(s) :
                  /\ \A j \in 1..k : DateLE(s[j].date, row.date)
                  /\ \A j \in (k + 1)..Len(s) : DateLE(row.date, s[j].date) } }

\* df.sort_values('date').reset_index(drop=True): the sort is not stable, so
\* rows of one date may end in either order
RECURSIVE SortValues(_)
SortValues(raw) ==
    IF raw = <<>> THEN { <<>> }
    ELSE UNION { InsertSorted(s, Head(raw)) : s \in SortValues(Tail(raw)) }

\* s.iloc[-1]
Last(s) == s[Len(s)]

\* df['date'].min(), df['date'].max()
DateMin(frame) ==
    (CHOOSE r \in { frame[i] : i \in DOMAIN frame } :
        \A j \in DOMAIN frame : DateLE(r.date, frame[j].date)).date

DateMax(frame) ==
    (CHOOSE r \in { frame[i] : i \in DOMAIN frame } :
        \A j \in DOMAIN frame : DateLE(frame[j].date, r.date)).date

\* mutant of NavRow: the rows strictly after invest_date (> for >=)
NavRowStrictlyAfter(frame, invest_date) ==
    SelectSeq(frame, LAMBDA r : ~DateLE(r.date, invest_date))

\* df[df['date'] >= invest_date]
NavRow(frame, invest_date) ==
    SelectSeq(frame, LAMBDA r : DateLE(invest_date, r.date))

\* datetime(d.year, d.month, 1)
MonthStart(d) == MkDate(d.year, d.month, 1)

\* the cursor's advance after a month that was simulated
NextMonth(cur) ==
    LET next_month == IF cur.month < 12 THEN cur.month + 1 ELSE 1
        next_year == IF cur.month < 12 THEN cur.year ELSE cur.year + 1
    IN  MkDate(next_year, next_month, 1)

\* mutant of SkipMonth: the cursor is not put back on day 1
SkipMonthNoReset(cur) == AddDays(cur, 32)

\* the cursor's advance after a month that has no day sip_day
SkipMonth(cur) == ReplaceDay(AddDays(cur, 32), 1)

---------------------------------------------------------------------------
(* The simulation loop *)

\* the cap on contributions: months_to_invest = years * 12
MonthsToInvest(yrs) == yrs * MonthsPerYear

\* mutant of LoopCondition: the cap on contributions is not tested
LoopConditionNoCap(scr, yrs, end, st) == DateLE(st.current, end)

\* the while condition
LoopCondition(scr, yrs, end, st) ==
    /\ scr = "sip_estimation" => st.months_done < MonthsToInvest(yrs)
    /\ DateLE(st.current, end)

\* one pass through the loop body; st = [current, sip_investments, months_done]
LoopBody(scr, frame, day, st) ==
    IF ReplaceRaises(st.current, day)
    THEN [st EXCEPT !.current = SkipMonth(st.current)]
    ELSE LET invest_date == ReplaceDay(st.current, day)
             nav_row == NavRow(frame, invest_date)
             found == nav_row # <<>>
         IN  [current |-> NextMonth(st.current),
              sip_investments |->
                  IF found THEN Append(st.sip_investments, Head(nav_row))
                           ELSE st.sip_investments,
              months_done |->
                  IF found /\ scr = "sip_estimation" THEN st.months_done + 1
                                                     ELSE st.months_done]

\* the loop run to its end
RECURSIVE RunLoop(_, _, _, _, _, _)
RunLoop(scr, frame, day, yrs, end, st) ==
    IF LoopCondition(scr, yrs, end, st)
    THEN RunLoop(scr, frame, day, yrs, end, LoopBody(scr, frame, day, st))
    ELSE st

\* the minimum number of contributions a result needs
Threshold(scr) == IF scr = "sip_estimation" THEN FundThreshold ELSE DayThreshold

\* mutant of TooFewInvestments: the threshold is one too low
TooFewOffByOne(scr, events) == Len(events) < Threshold(scr) - 1

\* len(sip_investments) < 24 (day scripts), < 12 (sip_estimation)
TooFewInvestments(scr, events) == Len(events) < Threshold(scr)

---------------------------------------------------------------------------
(* The result of a simulation *)

RECURSIVE SetProduct(_)
SetProduct(S) ==
    IF S = {} THEN 1
    ELSE LET x == CHOOSE x \in S : TRUE IN x * SetProduct(S \ {x})

\* the denominator every number of units and every value is written over
UnitsDen == SetProduct(NavValues)

RECURSIVE Gcd(_, _)
Gcd(a, b) == IF b = 0 THEN a ELSE Gcd(b, a % b)

\* mutant of TotalUnits: whole units only (// for /)
RECURSIVE TotalUnitsWhole(_, _)
TotalUnitsWhole(events, amount) ==
    IF events = <<>> THEN 0
    ELSE (amount \div Head(events).nav) * UnitsDen
           + TotalUnitsWhole(Tail(events), amount)

\* (amount / sip_df['nav']).sum(), as a numerator over UnitsDen
RECURSIVE TotalUnits(_, _)
TotalUnits(events, amount) ==
    IF events = <<>> THEN 0
    ELSE amount * (UnitsDen \div Head(events).nav) + TotalUnits(Tail(events), amount)

\* len(sip_df) * amount
TotalInvested(events, amount) == Len(events) * amount

\* total_units * df.iloc[-1]['nav'], as a numerator over UnitsDen
FinalValue(events, amount, frame) ==
    TotalUnits(events, amount) * frame[Len(frame)].nav

\* (df.iloc[-1]['date'] - sip_df.iloc[0]['date']).days; actual_years is this / 365.25
ActualDays(events, frame) == DaysBetween(events[1].date, frame[Len(frame)].date)

\* f"{x:,.2f}" of x = num / den >= 0: a whole number of cents, halves to even
FormatMoney(num, den) ==
    LET q == num \div den
        r == (num % den) * 100
        c == r \div den
        twice == 2 * (r % den)
        up == twice > den \/ (twice = den /\ c % 2 = 1)
    IN  q * 100 + c + (IF up THEN 1 ELSE 0)

\* float(s.replace(',', '')) of a formatted amount: its value, in cents
ParseMoney(cents) == cents

\* (end / start) ** (1 / span) - 1, kept as the reduced ratio and the span
PowCagr(start_num, end_num, span) ==
    LET g == Gcd(end_num, start_num)
    IN  IF g = 0 THEN [kind |-> "nan", num |-> 0, den |-> 0, span |-> span]
        ELSE [kind |-> "pow", num |-> end_num \div g, den |-> start_num \div g,
              span |-> span]

ZeroCagr == [kind |-> "zero", num |-> 0, den |-> 1, span |-> 0]

\* calculate_cagr(start_nav, end_nav, years) of sip_estimation.py; start and end
\* are given over one denominator
calculate_cagr(start_num, end_num, span) ==
    IF span > 0 THEN PowCagr(start_num, end_num, span) ELSE ZeroCagr

\* the result row of the day scripts; working.py takes the span of the whole
\* frame, app.py the span since the first contribution
DayRow(scr, events, amount, frame, start, end) ==
    [CAGR |-> PowCagr(TotalInvested(events, amount) * UnitsDen,
                      FinalValue(events, amount, frame),
                      IF scr = "working" THEN DaysBetween(start, end)
                                         ELSE ActualDays(events, frame)),
     FinalValue |-> FormatMoney(FinalValue(events, amount, frame), UnitsDen),
     TotalInvested |-> FormatMoney(TotalInvested(events, amount), 1)]

\* 1 / years (working.py), 1 / actual_years (app.py) raises ZeroDivisionError
DayRowRaises(scr, events, frame, start, end) ==
    IF scr = "working" THEN DaysBetween(start, end) = 0
                       ELSE ActualDays(events, frame) = 0

\* the result row of analyze_fund
FundRow(events, amount, frame) ==
    [CAGR |-> calculate_cagr(TotalInvested(events, amount) * UnitsDen,
                             FinalValue(events, amount, frame),
                             ActualDays(events, frame)),
     FinalValue |-> FormatMoney(FinalValue(events, amount, frame), UnitsDen),
     TotalInvested |-> FormatMoney(TotalInvested(events, amount), 1)]

---------------------------------------------------------------------------
(* Inputs *)

\* the answer to "Enter number of years to analyze" of app.py
YearsInputs ==
    { [text |-> "all", n |-> 0], [text |-> "abc", n |-> 0] }
        \cup { [text |-> "digits", n |-> k] : k \in 1..MaxYears }

\* int(years_input) raises ValueError
IntRaises(inp) == inp.text # "digits"

\* sip_start_date of app.py
AppStartDate(frame, inp) ==
    IF inp.text = "all" THEN DateMin(frame)
    ELSE IF IntRaises(inp) THEN DateMin(frame)
    ELSE SubYears(DateMax(frame), inp.n)

\* sip_start_date of analyze_fund
FundStartDate(frame, yrs) == SubYears(DateMax(frame), yrs)

\* the SIP days and amounts entered for a fund
SipDays == 1..31
SipAmounts == {0, 1, 2}

\* the loop's variables before its first pass
LoopStart(start) ==
    [current |-> MonthStart(start), sip_investments |-> <<>>, months_done |-> 0]

LoopState == [current |-> current, sip_investments |-> sip_investments,
              months_done |-> months_done]

---------------------------------------------------------------------------
(* The scripts, one simulation at a time *)

InitWorking(frame) ==
    /\ script = "working"
    /\ sip_start_date = DateMin(frame)
    /\ years = 0 /\ sip_amount = investment_amount /\ sip_day = 0
    /\ pc = "for"

InitApp(frame) ==
    /\ script = "app"
    /\ \E inp \in YearsInputs : sip_start_date = AppStartDate(frame, inp)
    /\ years = 0 /\ sip_amount = investment_amount /\ sip_day = 0
    /\ pc = "for"

InitFund(frame) ==
    /\ script = "sip_estimation"
    /\ \E yrs \in 1..MaxYears :
          /\ years = yrs
          /\ sip_start_date = FundStartDate(frame, yrs)
    /\ sip_amount \in SipAmounts
    /\ sip_day \in SipDays
    /\ pc = "loop"

\* main() is not running
MainIdle ==
    /\ funds = <<>> /\ fund_idx = 0
    /\ results = <<>> /\ total_invested = 0 /\ total_final_value = 0
    /\ resting_results = <<>> /\ total_rested_value = 0
    /\ summary = [aggregate |-> <<>>, resting |-> <<>>]
    /\ returned = <<>>

Init ==
    /\ \E raw \in Payloads : df \in SortValues(raw)
    /\ sip_end_date = DateMax(df)
    /\ InitWorking(df) \/ InitApp(df) \/ InitFund(df)
    /\ current = LoopStart(sip_start_date).current
    /\ sip_investments = <<>>
    /\ months_done = 0
    /\ cagr_results = <<>>
    /\ result = <<>>
    /\ error = ""
    /\ MainIdle

\* for sip_day in range(1, 32): the next day's simulation starts
DayStart ==
    /\ pc = "for" /\ sip_day < 31
    /\ sip_day' = sip_day + 1
    /\ sip_investments' = LoopStart(sip_start_date).sip_investments
    /\ current' = LoopStart(sip_start_date).current
    /\ pc' = "loop"
    /\ UNCHANGED mainVars
    /\ UNCHANGED <<script, df, sip_start_date, sip_end_date, years, sip_amount,
                   months_done, cagr_results, result, error>>

\* the for loop is exhausted
ForExit ==
    /\ pc = "for" /\ sip_day = 31
    /\ pc' = "done"
    /\ UNCHANGED mainVars
    /\ UNCHANGED <<script, df, sip_start_date, sip_end_date, years, sip_amount,
                   sip_day, current, sip_investments, months_done, cagr_results,
                   result, error>>

LoopPass ==
    LET st == LoopBody(script, df, sip_day, LoopState)
    IN  /\ current' = st.current
        /\ sip_investments' = st.sip_investments
        /\ months_done' = st.months_done
        /\ UNCHANGED mainVars
        /\ UNCHANGED <<script, df, sip_start_date, sip_end_date, years,
                       sip_amount, sip_day, cagr_results, result, pc, error>>

\* a month that has no day sip_day: ValueError, the cursor moves on
LoopSkipMonth ==
    /\ pc = "loop"
    /\ LoopCondition(script, years, sip_end_date, LoopState)
    /\ ReplaceRaises(current, sip_day)
    /\ LoopPass

\* a month that has the day: the NAV row on or after it, if any, is bought
LoopInvest ==
    /\ pc = "loop"
    /\ LoopCondition(script, years, sip_end_date, LoopState)
    /\ ~ReplaceRaises(current, sip_day)
    /\ LoopPass

LoopOver == pc = "loop" /\ ~LoopCondition(script, years, sip_end_date, LoopState)

\* day scripts: too few contributions, continue with the next day
DayTooFew ==
    /\ LoopOver /\ script # "sip_estimation"
    /\ TooFewInvestments(script, sip_investments)
    /\ pc' = "for"
    /\ UNCHANGED mainVars
    /\ UNCHANGED <<script, df, sip_start_date, sip_end_date, years, sip_amount,
                   sip_day, current, sip_investments, months_done, cagr_results,
                   result, error>>

\* day scripts: the day's row is stored
DayResult ==
    /\ LoopOver /\ script # "sip_estimation"
    /\ ~TooFewInvestments(script, sip_investments)
    /\ ~DayRowRaises(script, sip_investments, df, sip_start_date, sip_end_date)
    /\ cagr_results' =
          (sip_day :> DayRow(script, sip_investments, sip_amount, df,
                             sip_start_date, sip_end_date)) @@ cagr_results
    /\ pc' = "for"
    /\ UNCHANGED mainVars
    /\ UNCHANGED <<script, df, sip_start_date, sip_end_date, years, sip_amount,
                   sip_day, current, sip_investments, months_done, result, error>>

\* day scripts: the division by zero years ends the script
DayCrash ==
    /\ LoopOver /\ script # "sip_estimation"
    /\ ~TooFewInvestments(script, sip_investments)
    /\ DayRowRaises(script, sip_investments, df, sip_start_date, sip_end_date)
    /\ pc' = "crashed"
    /\ error' = "ZeroDivisionError"
    /\ UNCHANGED mainVars
    /\ UNCHANGED <<script, df, sip_start_date, sip_end_date, years, sip_amount,
                   sip_day, current, sip_investments, months_done, cagr_results,
                   result>>

\* analyze_fund returns None, None
FundTooFew ==
    /\ LoopOver /\ script = "sip_estimation"
    /\ TooFewInvestments(script, sip_investments)
    /\ result' = <<>>
    /\ pc' = "returned"
    /\ UNCHANGED mainVars
    /\ UNCHANGED <<script, df, sip_start_date, sip_end_date, years, sip_amount,
                   sip_day, current, sip_investments, months_done, cagr_results,
                   error>>

\* analyze_fund returns its row
FundResult ==
    /\ LoopOver /\ script = "sip_estimation"
    /\ ~TooFewInvestments(script, sip_investments)
    /\ result' = <<FundRow(sip_investments, sip_amount, df)>>
    /\ pc' = "returned"
    /\ UNCHANGED mainVars
    /\ UNCHANGED <<script, df, sip_start_date, sip_end_date, years, sip_amount,
                   sip_day, current, sip_investments, months_done, cagr_results,
                   error>>

Next ==
    \/ DayStart
    \/ ForExit
    \/ LoopSkipMonth
    \/ LoopInvest
    \/ DayTooFew
    \/ DayResult
    \/ DayCrash
    \/ FundTooFew
    \/ FundResult

Spec == Init /\ [][Next]_vars

\* analyze_fund alone; the interpreter runs the loop on to its end
FundInit == Init /\ script = "sip_estimation"

FundNext ==
    \/ LoopSkipMonth
    \/ LoopInvest
    \/ FundTooFew
    \/ FundResult

FundSpec == FundInit /\ [][FundNext]_vars /\ WF_vars(FundNext)

---------------------------------------------------------------------------
(* main() of sip_estimation.py: one fund after the other *)

\* the funds a list is made of
MainDays == {1, 31}

FundConfigs == [sip_day : MainDays, sip_amount : SipAmounts, years : 1..MaxYears]

FundLists == UNION { [1..n -> FundConfigs] : n \in 1..MaxFunds }

\* the well-formed responses a fund's URL may give
MainPayloads ==
    { << [date |-> MkDate(2024, 12, 15), nav |-> 1],
         [date |-> MkDate(2023, 12, 31), nav |-> 3] >>,
      << [date |-> MkDate(2024, 12, 15), nav |-> 3] >> }

\* the ways a fund's analysis raises before its frame is built, and the
\* exception of each: requests.get, response.json(), data['meta'], df['date']
\* of an empty frame, pd.to_numeric
FetchFailures ==
    { [kind |-> "connection_error", raises |-> "RequestException"],
      [kind |-> "not_json", raises |-> "JSONDecodeError"],
      [kind |-> "no_scheme_name", raises |-> "KeyError"],
      [kind |-> "empty_data", raises |-> "KeyError"],
      [kind |-> "bad_nav", raises |-> "ValueError"] }

\* the answers to the resting-period prompts
RestingInputs == {0, 1}

\* analyze_fund on a well-formed response: the row (<<>> for None) and
\* final_value of meta, a numerator over UnitsDen
analyze_fund(frame, fund) ==
    LET st == RunLoop("sip_estimation", frame, fund.sip_day, fund.years,
                      DateMax(frame), LoopStart(FundStartDate(frame, fund.years)))
        E == st.sip_investments
    IN  IF TooFewInvestments("sip_estimation", E)
        THEN [row |-> <<>>, final_value |-> 0]
        ELSE [row |-> <<FundRow(E, fund.sip_amount, frame)>>,
              final_value |-> FinalValue(E, fund.sip_amount, frame)]

\* calculate_estimated_amount(cagr, years, initial_investment) for a cagr over
\* that many years: initial * (1 + cagr) ** years is initial * ratio; the
\* initial amount is over UnitsDen, the result over UnitsDen * UnitsDen
calculate_estimated_amount(cagr, yrs, initial_num) ==
    IF cagr.kind = "pow" /\ cagr.span = yrs
    THEN initial_num * cagr.num * (UnitsDen \div cagr.den)
    ELSE initial_num * UnitsDen

\* apply_resting_period(df, invested_amount, years)
apply_resting_period(frame, invested_num, yrs) ==
    LET resting_df == NavRow(frame, SubYears(DateMax(frame), yrs))
        cagr == calculate_cagr(Head(resting_df).nav, Last(resting_df).nav, yrs)
    IN  IF yrs <= 0 \/ resting_df = <<>>
        THEN [rested_value |-> invested_num * UnitsDen, cagr |-> ZeroCagr]
        ELSE [rested_value |-> calculate_estimated_amount(cagr, yrs, invested_num),
              cagr |-> cagr]

\* mutant of AddToTotal: the total is overwritten (= for +=)
AddToTotalOverwrites(total, text) == ParseMoney(text)

\* every fund and frame of the model with what analyze_fund returns for them
FundAnalyses ==
    { [fund |-> f, frame |-> fr, r |-> analyze_fund(fr, f)] :
        f \in FundConfigs, fr \in UNION { SortValues(raw) : raw \in MainPayloads } }

\* total += float(row[field].replace(',', ''))
AddToTotal(total, text) == total + ParseMoney(text)

MainInit ==
    /\ script = "sip_estimation"
    /\ df = <<>>
    /\ sip_start_date = MkDate(1, 1, 1) /\ sip_end_date = MkDate(1, 1, 1)
    /\ current = MkDate(1, 1, 1)
    /\ years = 0 /\ sip_amount = 0 /\ sip_day = 0
    /\ sip_investments = <<>> /\ months_done = 0
    /\ cagr_results = <<>> /\ result = <<>>
    /\ funds \in FundLists
    /\ fund_idx = 1
    /\ results = <<>> /\ total_invested = 0 /\ total_final_value = 0
    /\ resting_results = <<>> /\ total_rested_value = 0
    /\ summary = [aggregate |-> <<>>, resting |-> <<>>]
    /\ returned = <<>>
    /\ pc = "main_loop"
    /\ error = ""

InMainLoop == pc = "main_loop" /\ fund_idx <= Len(funds)

\* the fund's analysis raises: nothing in main() catches it
AnalyzeRaises ==
    /\ InMainLoop
    /\ \E f \in FetchFailures : error' = f.raises
    /\ pc' = "aborted"
    /\ UNCHANGED <<simVars, mainVars>>

\* the fund's analysis returns None, None: the loop goes on
AnalyzeNone ==
    /\ InMainLoop
    /\ \E a \in FundAnalyses :
          /\ a.fund = funds[fund_idx]
          /\ a.r.row = <<>>
          /\ returned' = Append(returned, a.r)
    /\ fund_idx' = fund_idx + 1
    /\ UNCHANGED <<simVars, funds, results, total_invested, total_final_value,
                   resting_results, total_rested_value, summary, pc, error>>

\* the fund's analysis returns a row: the totals grow, and the fund is given
\* its resting period when one is entered
AnalyzeRow ==
    /\ InMainLoop
    /\ \E a \in FundAnalyses : \E resting_years \in RestingInputs :
          LET r == a.r
              rest == apply_resting_period(a.frame, r.final_value, resting_years)
          IN  /\ a.fund = funds[fund_idx]
              /\ r.row # <<>>
              /\ returned' = Append(returned, r)
              /\ results' = Append(results, r.row[1])
              /\ total_invested' = AddToTotal(total_invested, r.row[1].TotalInvested)
              /\ total_final_value' =
                    AddToTotal(total_final_value, r.row[1].FinalValue)
              /\ IF resting_years > 0
                 THEN /\ resting_results' = Append(resting_results,
                            [InvestedAmount |-> FormatMoney(r.final_value, UnitsDen),
                             RestedValue |->
                                 FormatMoney(rest.rested_value, UnitsDen * UnitsDen),
                             CAGR |-> rest.cagr])
                      /\ total_rested_value' = total_rested_value + rest.rested_value
                 ELSE UNCHANGED <<resting_results, total_rested_value>>
    /\ fund_idx' = fund_idx + 1
    /\ UNCHANGED <<simVars, funds, summary, pc, error>>

MainLoopOver == pc = "main_loop" /\ fund_idx > Len(funds)

\* the aggregate CAGR divides by a total invested of 0.0
AggregateRaises == results # <<>> /\ total_invested = 0 /\ funds[1].years > 0

\* the summaries: the aggregate over the funds with a row, if any, then the
\* aggregate of the resting periods, if any
Summary ==
    /\ MainLoopOver
    /\ ~AggregateRaises
    /\ \E resting_years \in RestingInputs :
          /\ ~(resting_results # <<>> /\ total_final_value = 0 /\ resting_years > 0)
          /\ summary' =
                [aggregate |->
                    IF results # <<>>
                    THEN << [TotalInvested |-> FormatMoney(total_invested, 100),
                             TotalFinalValue |-> FormatMoney(total_final_value, 100),
                             CAGR |-> calculate_cagr(total_invested, total_final_value,
                                                     funds[1].years)] >>
                    ELSE <<>>,
                 resting |->
                    IF resting_results # <<>>
                    THEN << calculate_cagr(total_final_value * UnitsDen * UnitsDen,
                                           total_rested_value * 100, resting_years) >>
                    ELSE <<>>]
    /\ pc' = "done"
    /\ UNCHANGED <<simVars, funds, fund_idx, results, total_invested,
                   total_final_value, resting_results, total_rested_value,
                   returned, error>>

\* the aggregate CAGR raises ZeroDivisionError
SummaryRaises ==
    /\ MainLoopOver
    /\ AggregateRaises
    /\ pc' = "aborted"
    /\ error' = "ZeroDivisionError"
    /\ UNCHANGED <<simVars, mainVars>>

MainNext ==
    \/ AnalyzeRaises
    \/ AnalyzeNone
    \/ AnalyzeRow
    \/ Summary
    \/ SummaryRaises

MainSpec == MainInit /\ [][MainNext]_vars

---------------------------------------------------------------------------
(* Properties *)

\* months since year 0, for counting calendar months
MonthIndex(d) == d.year * 12 + d.month - 1

\* a pass through the loop body is about to run
InLoopBody == pc = "loop" /\ LoopCondition(script, years, sip_end_date, LoopState)

\* a simulation has just ended (its events are still in sip_investments)
SimulationOver == (pc = "for" /\ sip_day >= 1) \/ pc = "returned"

\* C1: in a month that has the nominal day d = current.replace(day=sip_day), the
\* row bought is the first row of the frame dated on or after d, no row of the
\* frame on or after d is dated earlier, and d at or before the frame's first
\* date buys the frame's first row; when d is after the frame's last date
\* nothing is bought that month.
C1_TradingDayResolution ==
    [][ (InLoopBody /\ ~ReplaceRaises(current, sip_day)) =>
          LET d == ReplaceDay(current, sip_day)
              onOrAfter == { i \in DOMAIN df : DateLE(d, df[i].date) }
          IN  IF ~DateLE(d, Last(df).date)
              THEN onOrAfter = {} /\ sip_investments' = sip_investments
              ELSE \E i \in onOrAfter :
                      /\ sip_investments' = Append(sip_investments, df[i])
                      /\ \A j \in onOrAfter :
                            i <= j /\ DateLE(df[i].date, df[j].date)
                      /\ \A j \in DOMAIN df : j < i => ~DateLE(d, df[j].date)
                      /\ DateLE(d, df[1].date) => i = 1 ]_vars

\* C1 witness: app.py, day 16 over 25 months: the first nominal date is before
\* the frame's first row and buys it, the next buys the later row, and the last
\* nominal date is after the frame's last row and buys nothing
C1_Witness ==
    /\ pc = "for" /\ sip_day = 16 /\ Len(df) = 2
    /\ df[1].date # df[2].date
    /\ ~DateLE(df[1].date, ReplaceDay(MonthStart(sip_start_date), sip_day))
    /\ ~DateLE(ReplaceDay(sip_end_date, sip_day), sip_end_date)
    /\ Len(sip_investments) = 24
    /\ sip_investments[1] = df[1] /\ sip_investments[2] = df[2]
    /\ MonthIndex(current) - MonthIndex(sip_start_date) = 25

\* C2 (as amended): every pass through the loop body leaves the cursor on day 1
\* of the calendar month right after the one it was in, whether or not the month
\* has a day sip_day; a month without that day buys nothing; the first pass of a
\* simulation is in the month of sip_start_date; and the loop ends only with the
\* cursor past sip_end_date or, in sip_estimation.py, with years * 12
\* contributions made.
C2_StepAdvancesOneMonth ==
    InLoopBody =>
        /\ current.day = 1
        /\ current'.day = 1
        /\ MonthIndex(current') = MonthIndex(current) + 1
        /\ ReplaceRaises(current, sip_day) => sip_investments' = sip_investments
        /\ Len(sip_investments') <= Len(sip_investments) + 1

C2_StartsInStartMonth ==
    (pc' = "loop" /\ pc # "loop") => current' = MonthStart(sip_start_date)

C2_MonthlyCadenceUntilEndOrCap ==
    /\ pc = "loop" => current = MonthStart(sip_start_date)
    /\ [][ /\ C2_StepAdvancesOneMonth
           /\ C2_StartsInStartMonth
           /\ (pc = "loop" /\ pc' # "loop") =>
                  \/ ~DateLE(current, sip_end_date)
                  \/ /\ script = "sip_estimation"
                     /\ Len(sip_investments) = MonthsToInvest(years) ]_vars

\* C2 (as claimed): the same, but the loop ends only with the cursor past
\* sip_end_date, every month up to sip_end_date having been visited.
C2_MonthlyCadenceUntilEnd ==
    /\ pc = "loop" => current = MonthStart(sip_start_date)
    /\ [][ /\ C2_StepAdvancesOneMonth
           /\ C2_StartsInStartMonth
           /\ (pc = "loop" /\ pc' # "loop") => ~DateLE(current, sip_end_date) ]_vars

\* C2 witness: day 30 from December 2023: December and January bought, February
\* skipped, the cursor on 1 March
C2_Witness ==
    /\ pc = "loop" /\ sip_day = 30
    /\ MonthStart(sip_start_date) = MkDate(2023, 12, 1)
    /\ current = MkDate(2024, 3, 1)
    /\ Len(sip_investments) = 2

\* C3: a simulation that ends with fewer contributions than the threshold (24 in
\* the day scripts, 12 in sip_estimation.py) leaves no result for its pair, and
\* every result stored rests on at least that many contributions.
C3_MinimumContributions ==
    /\ (pc = "for" /\ sip_day >= 1) =>
          /\ Len(sip_investments) < DayThreshold => sip_day \notin DOMAIN cagr_results
          /\ sip_day \in DOMAIN cagr_results => Len(sip_investments) >= DayThreshold
    /\ \A d \in DOMAIN cagr_results :
          ParseMoney(cagr_results[d].TotalInvested)
              >= DayThreshold * investment_amount * 100
    /\ pc = "returned" =>
          /\ Len(sip_investments) < FundThreshold => result = <<>>
          /\ result # <<>> =>
                /\ Len(sip_investments) >= FundThreshold
                /\ ParseMoney(result[1].TotalInvested)
                      >= FundThreshold * sip_amount * 100

\* C3 witness: day 28 made 24 contributions and has its row, day 29 made 23 (no
\* 29 February 2023) and has none
C3_Witness ==
    /\ pc = "for" /\ sip_day = 29
    /\ Len(sip_investments) = DayThreshold - 1
    /\ 28 \in DOMAIN cagr_results
    /\ 29 \notin DOMAIN cagr_results

\* the first day of the calendar month with index i
MonthOfIndex(i) == MkDate(i \div 12, (i % 12) + 1, 1)

\* the simulated span is exactly 12 calendar months (so it holds a February)
\* and the frame has a row on or after every nominal date of sip_day in it
TwelveMonthsAllCovered ==
    /\ MonthIndex(sip_end_date) - MonthIndex(sip_start_date) + 1 = 12
    /\ \A i \in MonthIndex(sip_start_date)..MonthIndex(sip_end_date) :
          ~ReplaceRaises(MonthOfIndex(i), sip_day) =>
              DateLE(ReplaceDay(MonthOfIndex(i), sip_day), Last(df).date)

\* C5 (as claimed): a simulation that passes the threshold with no days elapsed
\* since its first contribution, or with nothing invested, yields no result: no
\* row is stored or returned for it, and the run does not end in an arithmetic
\* error.
C5_UndefinedCagrIsNoResult ==
    /\ error # "ZeroDivisionError"
    /\ (pc = "returned" /\ ~TooFewInvestments(script, sip_investments)
          /\ (ActualDays(sip_investments, df) <= 0
                \/ TotalInvested(sip_investments, sip_amount) = 0))
        => result = <<>>
    /\ (pc = "for" /\ sip_day >= 1 /\ ~TooFewInvestments(script, sip_investments)
          /\ ActualDays(sip_investments, df) <= 0)
        => sip_day \notin DOMAIN cagr_results

\* C6 (as amended): over 12 calendar months with a row on or after every nominal
\* date, day 31 makes exactly 7 contributions (one in each 31-day month) and
\* day 1 makes exactly 12.
C6_Day31MakesSeven ==
    (SimulationOver /\ TwelveMonthsAllCovered) =>
        /\ sip_day = 31 => Len(sip_investments) = 7
        /\ sip_day = 1 => Len(sip_investments) = 12

\* C6 (as claimed): day 31 makes exactly 11 contributions, day 1 exactly 12.
C6_Day31MakesEleven ==
    (SimulationOver /\ TwelveMonthsAllCovered) =>
        /\ sip_day = 31 => Len(sip_investments) = 11
        /\ sip_day = 1 => Len(sip_investments) = 12

\* C6 witness: day 31 has been simulated over such a span
C6_Witness ==
    /\ SimulationOver /\ TwelveMonthsAllCovered
    /\ sip_day = 31 /\ Len(sip_investments) = 7

\* one row in each of Len(frame) consecutive calendar months
IsMonthly(frame) ==
    \A i \in 1..(Len(frame) - 1) :
        MonthIndex(frame[i + 1].date) = MonthIndex(frame[i].date) + 1

\* C7 (as claimed): with the threshold of 12, a frame of only 10 monthly rows
\* yields no result, whatever the day and the horizon.
C7_TenMonthlyRowsRejected ==
    (pc = "returned" /\ Len(df) = 10 /\ IsMonthly(df)) => result = <<>>

\* C8: at the end of any simulation, the contributions are those the loop makes
\* from the frame, the day and the span alone, and with the monthly amount
\* doubled over them the total invested and the final value are exactly
\* doubled, and the CAGR of the row is the same.
C8_DoublingTheAmount ==
    SimulationOver =>
        LET E == sip_investments
            a == sip_amount
        IN  /\ E = RunLoop(script, df, sip_day, years, sip_end_date,
                           LoopStart(sip_start_date)).sip_investments
            /\ TotalInvested(E, 2 * a) = 2 * TotalInvested(E, a)
            /\ FinalValue(E, 2 * a, df) = 2 * FinalValue(E, a, df)
            /\ ~TooFewInvestments(script, E) =>
                  IF script = "sip_estimation"
                  THEN FundRow(E, 2 * a, df).CAGR = FundRow(E, a, df).CAGR
                  ELSE DayRow(script, E, 2 * a, df, sip_start_date, sip_end_date).CAGR
                         = DayRow(script, E, a, df, sip_start_date, sip_end_date).CAGR

\* C8 witness: a fund's simulation has returned a row whose final value is not a
\* whole multiple of the amount invested
C8_Witness ==
    /\ pc = "returned" /\ result # <<>> /\ sip_amount = 2
    /\ result[1].CAGR.kind = "pow"
    /\ result[1].CAGR.den > 1 /\ result[1].CAGR.num > result[1].CAGR.den

\* the cap of the fixed-horizon loop
AtMostCap ==
    script = "sip_estimation" =>
        /\ months_done = Len(sip_investments)
        /\ Len(sip_investments) <= MonthsPerYear * years
        /\ TotalInvested(sip_investments, sip_amount)
              <= MonthsPerYear * years * sip_amount
        /\ (pc = "returned" /\ result # <<>>) =>
              ParseMoney(result[1].TotalInvested)
                  <= MonthsPerYear * years * sip_amount * 100

\* C10: analyze_fund's loop ends, and at no point has it made more than
\* 12 * years contributions, so that the amount invested is at most
\* 12 * years * sip_amount.
C10_LoopEndsWithinCap == []AtMostCap /\ <>(pc = "returned")

\* C10 witness: a loop that passed over a month without making a contribution
\* and went on to make all 12 * years of them
C10_Witness ==
    /\ pc = "returned" /\ script = "sip_estimation"
    /\ Len(sip_investments) = MonthsPerYear * years
    /\ MonthIndex(current) - MonthIndex(sip_start_date) > Len(sip_investments)

\* the exceptions a fund's fetch or payload raises
PerFundErrors == { f.raises : f \in FetchFailures }

\* C4 (as claimed): no failure of one fund's fetch or payload ends the run; the
\* run ends only after every fund of the list has been analysed.
C4_FailedFundDoesNotAbort ==
    /\ pc = "aborted" => error \notin PerFundErrors
    /\ pc \in {"done", "aborted"} => fund_idx = Len(funds) + 1

\* the rows among what analyze_fund returned, in order
RECURSIVE RowsOf(_)
RowsOf(rs) ==
    IF rs = <<>> THEN <<>>
    ELSE (IF Head(rs).row # <<>> THEN <<Head(rs).row[1]>> ELSE <<>>)
           \o RowsOf(Tail(rs))

RECURSIVE SumInvested(_)
SumInvested(rows) ==
    IF rows = <<>> THEN 0
    ELSE ParseMoney(Head(rows).TotalInvested) + SumInvested(Tail(rows))

RECURSIVE SumFinalValue(_)
SumFinalValue(rows) ==
    IF rows = <<>> THEN 0
    ELSE ParseMoney(Head(rows).FinalValue) + SumFinalValue(Tail(rows))

\* the exact final values returned, summed: a numerator over UnitsDen
RECURSIVE SumExactFinalValue(_)
SumExactFinalValue(rs) ==
    IF rs = <<>> THEN 0
    ELSE Head(rs).final_value + SumExactFinalValue(Tail(rs))

\* the loop has dealt with the funds before fund_idx, those with a row are the
\* rows of results, and the aggregate is printed only over at least one row
PrefixProcessed ==
    /\ Len(returned) = fund_idx - 1
    /\ results = RowsOf(returned)
    /\ summary.aggregate # <<>> => results # <<>>

\* C9 (as amended): after any prefix of the fund list, total_invested is the sum
\* of the amounts invested, and total_final_value the sum of the final values
\* as rounded to two decimals in the rows, of exactly the funds of the prefix
\* that gave a row; the aggregate CAGR is printed only when some fund gave one.
C9_TotalsAreSumsOfRows ==
    pc \in {"main_loop", "done", "aborted"} =>
        /\ PrefixProcessed
        /\ total_invested = SumInvested(RowsOf(returned))
        /\ total_final_value = SumFinalValue(RowsOf(returned))

\* C9 (as claimed): the same, with total_final_value the sum of the final
\* values themselves.
C9_TotalsAreExactSums ==
    pc \in {"main_loop", "done", "aborted"} =>
        /\ PrefixProcessed
        /\ total_invested = SumInvested(RowsOf(returned))
        /\ total_final_value * UnitsDen = 100 * SumExactFinalValue(returned)

\* C9 witness: a list of two funds, the first without a row, the second with
\* one whose final value is not a whole number of cents; the summary printed
C9_Witness ==
    /\ pc = "done" /\ Len(funds) = 2
    /\ returned[1].row = <<>> /\ returned[2].row # <<>>
    /\ summary.aggregate # <<>>
    /\ total_final_value * UnitsDen # 100 * returned[2].final_value

====
